---- MODULE Spec2Model ----
(***************************************************************************)
(* Model of parser.py: the Constituency record, its to_pandas conversion   *)
(* and the parse function that walks a parsed HTML tree, collects the      *)
(* side lists, decodes every nested table by a count-mod-4 cycle and folds *)
(* the records into one data frame.                                        *)
(*                                                                         *)
(* A text is a sequence of one-character strings.  A parsed document is a  *)
(* sequence of nodes in document (pre-) order, each with its tag, its      *)
(* depth and, for a text node, its text; the descendants of a node are the *)
(* nodes that follow it with a larger depth.                               *)
(***************************************************************************)
EXTENDS Integers, Sequences, FiniteSets, TLC

\* Largest number of constituency blocks in the results table of a document.
MaxBlocks == 2
\* Largest number of cells of one nested table.
MaxCells == 4
\* Largest length of a sequence of a hand-built Constituency.
MaxLen == 2

VARIABLES doc, pc, err, big_table, tr_i, constituency_names, electorates,
          con_count, table, constituency, count, constituencies, as_i,
          dataframe, csv

vars == <<doc, pc, err, big_table, tr_i, constituency_names, electorates,
          con_count, table, constituency, count, constituencies, as_i,
          dataframe, csv>>

----------------------------------------------------------------------------
(* Texts *)

Digits == {"0", "1", "2", "3", "4", "5", "6", "7", "8", "9"}

Dig(k) == <<"0", "1", "2", "3", "4", "5", "6", "7", "8", "9">>[(k % 10) + 1]

\* The literal 'Electorate: ' of the pattern.
Prefix == <<"E", "l", "e", "c", "t", "o", "r", "a", "t", "e", ":", " ">>

\* A missing value of a data frame (NaN); no text equals it.
NaN == <<"NaN">>

RECURSIVE Replace(_, _)
\* str.replace(ch, ''): every occurrence of the character ch is removed.
Replace(s, ch) ==
    IF s = <<>> THEN <<>>
    ELSE IF Head(s) = ch THEN Replace(Tail(s), ch)
         ELSE <<Head(s)>> \o Replace(Tail(s), ch)

\* item.text.replace(',', '').replace('*', '')
CandidateText(t) == Replace(Replace(t, ","), "*")

\* item.text.replace(',', '')
PlainText(t) == Replace(t, ",")

\* A faulty variant of PercentText: the '%' sign is kept.
PercentTextKeepsSign(t) == Replace(t, ",")

\* item.text.replace(',', '').replace('%', '')
PercentText(t) == Replace(Replace(t, ","), "%")

\* Whether the pattern 'Electorate: [\d,]{1,}' matches t at position i.
MatchesAt(t, i) ==
    /\ i + Len(Prefix) <= Len(t)
    /\ SubSeq(t, i, i + Len(Prefix) - 1) = Prefix
    /\ t[i + Len(Prefix)] \in Digits \cup {","}

\* re.search: whether the pattern matches anywhere in t.
Matches(t) == \E i \in 1..Len(t) : MatchesAt(t, i)

\* re.search(...).group(0): the leftmost match, its [\d,]{1,} taken greedily.
Group0(t) ==
    LET i == CHOOSE a \in 1..Len(t) :
                 MatchesAt(t, a) /\ \A b \in 1..(a - 1) : ~MatchesAt(t, b)
        f == i + Len(Prefix)
        l == CHOOSE e \in f..Len(t) :
                 /\ \A x \in f..e : t[x] \in Digits \cup {","}
                 /\ (e = Len(t) \/ t[e + 1] \notin Digits \cup {","})
    IN  SubSeq(t, i, l)

\* exp.group(0).replace('Electorate: ', '').replace(',', ''): the match holds
\* the literal once, at its start, so the first replace removes that prefix.
ElectorateFigure(t) ==
    LET g == Group0(t)
    IN  Replace(SubSeq(g, Len(Prefix) + 1, Len(g)), ",")

----------------------------------------------------------------------------
(* The parsed document *)

Elem(tag, depth) == [tag |-> tag, depth |-> depth, txt |-> <<>>]

TextNode(t, depth) == [tag |-> "#text", depth |-> depth, txt |-> t]

RECURSIVE DeeperUpTo(_, _, _)
\* The last node of the run of nodes deeper than node i that follows node e.
DeeperUpTo(d, i, e) ==
    IF e < Len(d) /\ d[e + 1].depth > d[i].depth
    THEN DeeperUpTo(d, i, e + 1)
    ELSE e

\* The last node of the subtree of node i of document d (i = 0: the soup).
SubtreeEnd(d, i) == IF i = 0 THEN Len(d) ELSE DeeperUpTo(d, i, i)

\* The indices of a set of nodes in document order.
InOrder(d, S) == SelectSeq([j \in 1..Len(d) |-> j], LAMBDA j : j \in S)

\* node.find_all(tag): every descendant of node i with that tag, at any
\* depth, in document order.
find_all(d, i, tag) ==
    InOrder(d, {j \in (i + 1)..SubtreeEnd(d, i) : d[j].tag = tag})

RECURSIVE ConcatText(_, _, _)
ConcatText(d, from, to) ==
    IF from > to THEN <<>>
    ELSE d[from].txt \o ConcatText(d, from + 1, to)

\* node.text: the texts of all text nodes below node i, concatenated.
TextOf(d, i) == ConcatText(d, i + 1, SubtreeEnd(d, i))

RECURSIVE Flatten(_)
Flatten(ss) == IF ss = <<>> THEN <<>> ELSE Head(ss) \o Flatten(Tail(ss))

\* for row in table.find_all('tr'): for item in row.find_all('td'): the
\* cells in the order the two nested loops visit them.
CellStream(d, t) ==
    LET rows == find_all(d, t, "tr")
    IN  Flatten([r \in 1..Len(rows) |-> find_all(d, rows[r], "td")])

----------------------------------------------------------------------------
(* The documents the model reads *)

Variants == {"clean", "dirty"}

NameOfBlock(k, v) ==
    IF v = "clean" THEN <<"N", Dig(k)>> ELSE <<"N", ",", Dig(k)>>

ParaText(k, para, v) ==
    IF para = "ok"
    THEN IF v = "clean" THEN Prefix \o <<Dig(k)>>
         ELSE <<"x">> \o Prefix \o <<Dig(k), ",", Dig(k), ".", "7">>
    ELSE IF v = "clean" THEN <<"x", "1">> ELSE Prefix \o <<"x">>

CellText(k, c, v) ==
    IF v = "clean" THEN <<Dig(c), Dig(k)>>
    ELSE <<Dig(c), ",", "*", "%", Dig(k), ",">>

\* Cell c (from 0) of a nested table at depth dp + 1: a new row opens every
\* four cells; with bold, a candidate cell wraps its text in a bold span.
CellNodes(k, c, v, bold, dp) ==
    (IF c % 4 = 0 THEN <<Elem("tr", dp + 1)>> ELSE <<>>)
    \o <<Elem("td", dp + 2)>>
    \o (IF bold /\ c % 4 = 0
        THEN <<Elem("b", dp + 3), TextNode(CellText(k, c, v), dp + 4)>>
        ELSE <<TextNode(CellText(k, c, v), dp + 3)>>)

\* A nested table of n cells, the table element at depth dp.
NestedTable(k, n, v, bold, dp) ==
    <<Elem("table", dp)>>
    \o Flatten([c \in 1..n |-> CellNodes(k, c - 1, v, bold, dp)])

\* One constituency of the results table: a row holding the bold name, the
\* electorate paragraph (unless missing) and the nested table of n cells.
Block(k, n, para, v, bold) ==
    <<Elem("tr", 1), Elem("td", 2),
      Elem("b", 3), TextNode(NameOfBlock(k, v), 4)>>
    \o (IF para = "missing" THEN <<>>
        ELSE <<Elem("p", 3), TextNode(ParaText(k, para, v), 4)>>)
    \o NestedTable(k, n, v, bold, 3)

\* The results table of a document: block number p.at (if any) has the
\* paragraph p.anomaly, every other block a matching paragraph.
ResultsTable(p) ==
    <<Elem("table", 0)>>
    \o Flatten([k \in 1..Len(p.cells) |->
                  Block(k - 1, p.cells[k],
                        IF k = p.at THEN p.anomaly ELSE "ok", p.v, p.bold)])

\* The decorative first table: plain, or with a table nested in its cell.
FirstTable(kind) ==
    IF kind = "none" THEN <<>>
    ELSE <<Elem("table", 0), Elem("tr", 1), Elem("td", 2)>>
         \o (IF kind = "nested"
             THEN <<Elem("table", 3), Elem("tr", 4), Elem("td", 5),
                    TextNode(<<"m">>, 6)>>
             ELSE <<TextNode(<<"m">>, 3)>>)

Document(p) ==
    FirstTable(p.kind) \o (IF p.res THEN ResultsTable(p) ELSE <<>>)

CellCountSeqs == UNION {[1..n -> 0..MaxCells] : n \in 0..MaxBlocks}

\* The documents read: the site's layout (a plain first table, then the
\* results table) with every combination of cell counts, at most one block
\* whose paragraph is missing or matches nothing, clean or dirty texts, and
\* bold candidate cells; and the other layouts (no, one or a nested first
\* table, with or without a results table) with clean texts.
DocParams ==
    {p \in [kind : {"none", "plain", "nested"}, res : BOOLEAN,
            cells : CellCountSeqs, at : 0..MaxBlocks,
            anomaly : {"nomatch", "missing"}, v : Variants, bold : BOOLEAN] :
        /\ p.at <= Len(p.cells)
        /\ p.at = 0 => p.anomaly = "missing"
        /\ p.bold => (p.v = "clean" /\ p.at = 0)
        /\ ~(p.kind = "plain" /\ p.res) =>
               (p.at = 0 /\ ~p.bold /\ p.v = "clean")
        /\ ~p.res => p.cells = <<>>}

----------------------------------------------------------------------------
(* The Constituency class and the data frames it is converted to *)

\* Constituency.__init__: a named record with empty lists.
Constituency(name) ==
    [name |-> name, candidates |-> <<>>, parties |-> <<>>, votes |-> <<>>,
     percent |-> <<>>, electorate |-> <<>>]

Range(s) == {s[j] : j \in 1..Len(s)}

Repeat(x, n) == [j \in 1..n |-> x]

\* pd.DataFrame(columns=cols): named columns over an empty index.  A frame
\* is its column names in order, the length n of its index and the values
\* of every column; raised marks the frame of a conversion that raised
\* ValueError.
EmptyFrame(cols) ==
    [columns |-> cols, n |-> 0, col |-> [c \in Range(cols) |-> <<>>],
     raised |-> FALSE]

\* A faulty variant of SetItem: a list of another length is stored without
\* a ValueError.
SetItemUnchecked(df, key, value) ==
    IF df.n = 0 /\ Len(value) > 0
    THEN [df EXCEPT !.n = Len(value), !.col[key] = value]
    ELSE [df EXCEPT !.col[key] = value]

\* dataframe[key] = value for a list value and an existing column key.  On
\* an empty index a non-empty list sets the index to the list's length (the
\* other columns are filled with NaN); otherwise a list whose length differs
\* from the index raises ValueError.  After a raise nothing more is run.
SetItem(df, key, value) ==
    IF df.raised THEN df
    ELSE IF df.n = 0 /\ Len(value) > 0
    THEN [df EXCEPT !.n = Len(value),
                    !.col = [c \in DOMAIN df.col |->
                               IF c = key THEN value
                               ELSE Repeat(NaN, Len(value))]]
    ELSE IF Len(value) # df.n
    THEN [df EXCEPT !.raised = TRUE]
    ELSE [df EXCEPT !.col[key] = value]

FrameColumns == <<"names", "candidates", "parties", "votes", "percent">>

RecordColumns == FrameColumns \o <<"electorate">>

\* A faulty variant of to_pandas: the electorate column is never assigned.
to_pandas_no_electorate(self) ==
    LET names == Repeat(self.name, Len(self.candidates))
        d0 == EmptyFrame(RecordColumns)
        d1 == SetItem(d0, "names", names)
        d2 == SetItem(d1, "candidates", self.candidates)
        d3 == SetItem(d2, "parties", self.parties)
        d4 == SetItem(d3, "votes", self.votes)
    IN  SetItem(d4, "percent", self.percent)

\* Constituency.to_pandas
to_pandas(self) ==
    LET names == Repeat(self.name, Len(self.candidates))
        electorates_ == Repeat(self.electorate, Len(names))
        d0 == EmptyFrame(RecordColumns)
        d1 == SetItem(d0, "names", names)
        d2 == SetItem(d1, "candidates", self.candidates)
        d3 == SetItem(d2, "parties", self.parties)
        d4 == SetItem(d3, "votes", self.votes)
        d5 == SetItem(d4, "percent", self.percent)
    IN  SetItem(d5, "electorate", electorates_)

\* A faulty variant of Concat: the new rows are put first.
ConcatReversed(a, b) ==
    LET cols == a.columns
                \o SelectSeq(b.columns, LAMBDA c : c \notin Range(a.columns))
        part(f, c) == IF c \in DOMAIN f.col THEN f.col[c]
                      ELSE Repeat(NaN, f.n)
    IN  [columns |-> cols, n |-> a.n + b.n,
         col |-> [c \in Range(cols) |-> part(b, c) \o part(a, c)],
         raised |-> FALSE]

\* pd.concat([a, b]): the rows of a, then those of b, over the columns of a
\* followed by the columns only b has; a value a frame lacks is NaN.
Concat(a, b) ==
    LET cols == a.columns
                \o SelectSeq(b.columns, LAMBDA c : c \notin Range(a.columns))
        part(f, c) == IF c \in DOMAIN f.col THEN f.col[c]
                      ELSE Repeat(NaN, f.n)
    IN  [columns |-> cols, n |-> a.n + b.n,
         col |-> [c \in Range(cols) |-> part(a, c) \o part(b, c)],
         raised |-> FALSE]

\* Series.str.replace(',', ''): missing values stay missing.
StrReplaceComma(column) ==
    [j \in 1..Len(column) |->
        IF column[j] = NaN THEN NaN ELSE Replace(column[j], ",")]

\* The rows of a frame, each the tuple of its values in column order.
Rows(df) ==
    [r \in 1..df.n |->
        [j \in 1..Len(df.columns) |-> df.col[df.columns[j]][r]]]

----------------------------------------------------------------------------
(* parse *)

\* A faulty variant of GetItem: an index past the end yields the last
\* element instead of an IndexError.
GetItemClamped(s, k, dflt) ==
    [raised |-> FALSE,
     val |-> IF k < Len(s) THEN s[k + 1]
             ELSE IF Len(s) > 0 THEN s[Len(s)] ELSE dflt]

\* list[k] for a 0-based k: raises IndexError when k is out of range.
GetItem(s, k, dflt) ==
    [raised |-> k >= Len(s), val |-> IF k < Len(s) THEN s[k + 1] ELSE dflt]

\* The paragraphs of one row that are scanned before the first one without
\* a match (all of them if every one matches).
ScannedBeforeFailure(d, ps) ==
    LET bad == {j \in 1..Len(ps) : ~Matches(TextOf(d, ps[j]))}
        stop == IF bad = {} THEN Len(ps)
                ELSE (CHOOSE j \in bad : \A x \in bad : j <= x) - 1
    IN  SubSeq(ps, 1, stop)

\* A faulty variant of AppendCell: the fourth cell of a group goes to the
\* votes.
AppendCellThreeFields(c, cnt, text) ==
    IF cnt % 4 = 0
    THEN [c EXCEPT !.candidates = Append(@, CandidateText(text))]
    ELSE IF cnt % 4 = 1
    THEN [c EXCEPT !.parties = Append(@, PlainText(text))]
    ELSE [c EXCEPT !.votes = Append(@, PlainText(text))]

\* The body of the loop over the cells: the cell's text goes to the list
\* that the running count selects.
AppendCell(c, cnt, text) ==
    IF cnt % 4 = 0
    THEN [c EXCEPT !.candidates = Append(@, CandidateText(text))]
    ELSE IF cnt % 4 = 1
    THEN [c EXCEPT !.parties = Append(@, PlainText(text))]
    ELSE IF cnt % 4 = 2
    THEN [c EXCEPT !.votes = Append(@, PlainText(text))]
    ELSE [c EXCEPT !.percent = Append(@, PercentText(text))]

NoFrame == [columns |-> <<>>, n |-> 0, col |-> <<>>, raised |-> FALSE]

NoCsv == [written |-> FALSE, rows |-> <<>>]

Init ==
    /\ \E p \in DocParams : doc = Document(p)
    /\ pc = "locate"
    /\ err = ""
    /\ big_table = 0
    /\ tr_i = 0
    /\ constituency_names = <<>>
    /\ electorates = <<>>
    /\ con_count = 0
    /\ table = 0
    /\ constituency = Constituency(<<>>)
    /\ count = 0
    /\ constituencies = <<>>
    /\ as_i = 0
    /\ dataframe = NoFrame
    /\ csv = NoCsv

\* big_table = soup.find_all('table')[1], and the three empty lists.
LocateTable ==
    /\ pc = "locate"
    /\ LET tables == find_all(doc, 0, "table")
           got == GetItem(tables, 1, 0)
       IN  IF got.raised
           THEN /\ pc' = "error"
                /\ err' = "IndexError"
                /\ big_table' = big_table
           ELSE /\ pc' = "collect"
                /\ err' = err
                /\ big_table' = got.val
    /\ UNCHANGED <<doc, tr_i, constituency_names, electorates, con_count,
                   table, constituency, count, constituencies, as_i,
                   dataframe, csv>>

\* One pass of 'for tr in big_table.find_all('tr')': the bold spans of the
\* row, then the electorate figures of its paragraphs.
CollectRow ==
    /\ pc = "collect"
    /\ LET rows == find_all(doc, big_table, "tr")
       IN  /\ tr_i < Len(rows)
           /\ LET tr == rows[tr_i + 1]
                  ps == find_all(doc, tr, "p")
                  scanned == ScannedBeforeFailure(doc, ps)
              IN  /\ constituency_names' =
                         constituency_names \o find_all(doc, tr, "b")
                  /\ electorates' = electorates \o
                         [j \in 1..Len(scanned) |->
                             ElectorateFigure(TextOf(doc, scanned[j]))]
                  /\ IF Len(scanned) < Len(ps)
                     THEN /\ pc' = "error"
                          /\ err' = "AttributeError"
                          /\ tr_i' = tr_i
                     ELSE /\ pc' = pc
                          /\ err' = err
                          /\ tr_i' = tr_i + 1
    /\ UNCHANGED <<doc, big_table, con_count, table, constituency, count,
                   constituencies, as_i, dataframe, csv>>

\* The rows are exhausted: con_count = 0.
EndCollect ==
    /\ pc = "collect"
    /\ tr_i = Len(find_all(doc, big_table, "tr"))
    /\ pc' = "tables"
    /\ con_count' = 0
    /\ UNCHANGED <<doc, err, big_table, tr_i, constituency_names,
                   electorates, table, constituency, count, constituencies,
                   as_i, dataframe, csv>>

\* The head of one pass of 'for table in big_table.find_all('table')': the
\* record is built from the name and the electorate at index con_count.
NewConstituency ==
    /\ pc = "tables"
    /\ LET tables == find_all(doc, big_table, "table")
       IN  /\ con_count < Len(tables)
           /\ LET nm == GetItem(constituency_names, con_count, 0)
                  el == GetItem(electorates, con_count, <<>>)
                  built == Constituency(TextOf(doc, nm.val))
              IN  IF nm.raised
                  THEN /\ pc' = "error"
                       /\ err' = "IndexError"
                       /\ UNCHANGED <<constituency, con_count, count, table>>
                  ELSE IF el.raised
                  THEN /\ pc' = "error"
                       /\ err' = "IndexError"
                       /\ constituency' = built
                       /\ table' = tables[con_count + 1]
                       /\ UNCHANGED <<con_count, count>>
                  ELSE /\ pc' = "cells"
                       /\ err' = err
                       /\ constituency' = [built EXCEPT !.electorate = el.val]
                       /\ table' = tables[con_count + 1]
                       /\ con_count' = con_count + 1
                       /\ count' = 0
    /\ UNCHANGED <<doc, big_table, tr_i, constituency_names, electorates,
                   constituencies, as_i, dataframe, csv>>

\* One cell of the current table.
DecodeCell ==
    /\ pc = "cells"
    /\ LET cells == CellStream(doc, table)
       IN  /\ count < Len(cells)
           /\ constituency' =
                  AppendCell(constituency, count, TextOf(doc, cells[count + 1]))
           /\ count' = count + 1
    /\ UNCHANGED <<doc, pc, err, big_table, tr_i, constituency_names,
                   electorates, con_count, table, constituencies, as_i,
                   dataframe, csv>>

\* The cells are exhausted: constituencies.append(constituency).
AppendConstituency ==
    /\ pc = "cells"
    /\ count = Len(CellStream(doc, table))
    /\ constituencies' = Append(constituencies, constituency)
    /\ pc' = "tables"
    /\ UNCHANGED <<doc, err, big_table, tr_i, constituency_names,
                   electorates, con_count, table, constituency, count,
                   as_i, dataframe, csv>>

\* The tables are exhausted: the empty frame of the five columns.
EndTables ==
    /\ pc = "tables"
    /\ con_count = Len(find_all(doc, big_table, "table"))
    /\ dataframe' = EmptyFrame(FrameColumns)
    /\ as_i' = 0
    /\ pc' = "assemble"
    /\ UNCHANGED <<doc, err, big_table, tr_i, constituency_names,
                   electorates, con_count, table, constituency, count,
                   constituencies, csv>>

\* One pass of 'for constituency in constituencies': the record's frame is
\* concatenated, unless to_pandas raised ValueError, which is passed over.
Assemble ==
    /\ pc = "assemble"
    /\ as_i < Len(constituencies)
    /\ LET frame == to_pandas(constituencies[as_i + 1])
       IN  dataframe' = IF frame.raised THEN dataframe
                        ELSE Concat(dataframe, frame)
    /\ as_i' = as_i + 1
    /\ UNCHANGED <<doc, pc, err, big_table, tr_i, constituency_names,
                   electorates, con_count, table, constituency, count,
                   constituencies, csv>>

\* The commas are stripped from the names column, the frame is written when
\* write_to_csv is set, and returned.
Finish ==
    /\ pc = "assemble"
    /\ as_i = Len(constituencies)
    /\ \E write_to_csv \in BOOLEAN :
         LET final == [dataframe EXCEPT
                          !.col["names"] = StrReplaceComma(@)]
         IN  /\ dataframe' = final
             /\ csv' = IF write_to_csv
                       THEN [written |-> TRUE, rows |-> Rows(final)]
                       ELSE csv
    /\ pc' = "done"
    /\ UNCHANGED <<doc, err, big_table, tr_i, constituency_names,
                   electorates, con_count, table, constituency, count,
                   constituencies, as_i>>

Next ==
    \/ LocateTable
    \/ CollectRow
    \/ EndCollect
    \/ NewConstituency
    \/ DecodeCell
    \/ AppendConstituency
    \/ EndTables
    \/ Assemble
    \/ Finish

Spec == Init /\ [][Next]_vars

----------------------------------------------------------------------------
(* A hand-built Constituency converted by to_pandas *)

FieldValues == {<<"a">>, <<"b", ",">>}

FieldSeqs == UNION {[1..n -> FieldValues] : n \in 0..MaxLen}

\* Every record whose four lists hold up to MaxLen values each, the
\* electorate as __init__ leaves it or set to a figure.
RecordSet ==
    [name : {<<"N", ",", "1">>}, candidates : FieldSeqs, parties : FieldSeqs,
     votes : FieldSeqs, percent : FieldSeqs, electorate : {<<>>, <<"5", "4">>}]

InitRecord ==
    /\ constituency \in RecordSet
    /\ pc = "record"
    /\ doc = <<>>
    /\ err = ""
    /\ big_table = 0
    /\ tr_i = 0
    /\ constituency_names = <<>>
    /\ electorates = <<>>
    /\ con_count = 0
    /\ table = 0
    /\ count = 0
    /\ constituencies = <<>>
    /\ as_i = 0
    /\ dataframe = NoFrame
    /\ csv = NoCsv

\* constituency.to_pandas() on its own.
ToPandasCall ==
    /\ pc = "record"
    /\ dataframe' = to_pandas(constituency)
    /\ pc' = "converted"
    /\ UNCHANGED <<doc, err, big_table, tr_i, constituency_names,
                   electorates, con_count, table, constituency, count,
                   constituencies, as_i, csv>>

NextRecord == ToPandasCall

SpecRecord == InitRecord /\ [][NextRecord]_vars

----------------------------------------------------------------------------
(* What the properties speak of *)

\* t with every character of the set S left out.
Without(t, S) == SelectSeq(t, LAMBDA ch : ch \notin S)

Has(t, ch) == \E j \in 1..Len(t) : t[j] = ch

\* The nested tables of the selected table, in document order.
NestedTables == find_all(doc, big_table, "table")

\* The texts of the cells of a nested table, each cell once, in document
\* order.
CellTexts(t) ==
    LET tds == find_all(doc, t, "td")
    IN  [j \in 1..Len(tds) |-> TextOf(doc, tds[j])]

WellFormed(t) == Len(CellTexts(t)) % 4 = 0

\* The rows the k-th nested table stands for: none unless its cells are
\* 4n, else one per group of four cells.
ReferenceRows(k) ==
    LET cells == CellTexts(NestedTables[k])
        nm == Without(TextOf(doc, constituency_names[k]), {","})
    IN  IF Len(cells) % 4 # 0 THEN <<>>
        ELSE [j \in 1..(Len(cells) \div 4) |->
                <<nm,
                  Without(cells[4 * j - 3], {",", "*"}),
                  Without(cells[4 * j - 2], {","}),
                  Without(cells[4 * j - 1], {","}),
                  Without(cells[4 * j], {",", "%"})>>]

\* The five named columns of a frame, row by row.
FiveColumns(df) ==
    [r \in 1..df.n |->
        [j \in 1..5 |-> df.col[FrameColumns[j]][r]]]

RECURSIVE RowCount(_)
\* The rows the first k nested tables stand for, counted.
RowCount(k) ==
    IF k = 0 THEN 0
    ELSE RowCount(k - 1)
         + (IF WellFormed(NestedTables[k])
            THEN Len(CellTexts(NestedTables[k])) \div 4 ELSE 0)

Lengths(c) ==
    <<Len(c.candidates), Len(c.parties), Len(c.votes), Len(c.percent)>>

EqualLengths(c) ==
    /\ Len(c.candidates) = Len(c.parties)
    /\ Len(c.parties) = Len(c.votes)
    /\ Len(c.votes) = Len(c.percent)

----------------------------------------------------------------------------
(* Properties *)

\* C1: once the assembly loop has passed the records of the first as_i
\* nested tables, the frame holds exactly the rows of the well-formed ones
\* among them (a malformed table adds none, a well-formed one all of its
\* rows), and the run is never aborted during or after the assembly.
C1_MalformedSkipped ==
    /\ pc \in {"assemble", "done"} =>
          /\ Len(constituencies) = Len(NestedTables)
          /\ dataframe.n = RowCount(as_i)
          /\ ~dataframe.raised
    /\ pc = "error" => (as_i = 0 /\ dataframe = NoFrame)

\* C1 witness: a run completed on a document whose first nested table is
\* malformed and whose second one is well-formed with rows.
C1_Witness ==
    /\ pc = "done"
    /\ Len(NestedTables) = 2
    /\ ~WellFormed(NestedTables[1])
    /\ WellFormed(NestedTables[2])
    /\ dataframe.n = 1

C3_FiveFields ==
    pc = "done" =>
        /\ dataframe.columns = FrameColumns
        /\ \A r \in 1..Len(csv.rows) : Len(csv.rows[r]) = 5

\* The top-level tables of the document, in document order.
TopLevelTables ==
    InOrder(doc, {j \in 1..Len(doc) : doc[j].tag = "table" /\ doc[j].depth = 0})

\* C4 (as claimed): the selected table is the second top-level table, and
\* with fewer than two top-level tables the run fails before any record is
\* built.
C4_SecondTopLevel ==
    pc # "locate" =>
        IF Len(TopLevelTables) < 2
        THEN pc = "error" /\ constituencies = <<>> /\ con_count = 0
        ELSE pc = "error" \/ big_table = TopLevelTables[2]

\* The paragraphs of the selected table without a match of the pattern.
NoMatchParagraphs ==
    {j \in Range(find_all(doc, big_table, "p")) : ~Matches(TextOf(doc, j))}

\* The figures of the matching paragraphs of the selected table, in order.
MatchedFigures ==
    LET ps == SelectSeq(find_all(doc, big_table, "p"),
                        LAMBDA j : Matches(TextOf(doc, j)))
    IN  [j \in 1..Len(ps) |-> ElectorateFigure(TextOf(doc, ps[j]))]

\* C5 (as claimed): a paragraph without a match is skipped; the scan goes
\* on, the run is not aborted by it, and electorates ends as the figures of
\* the matching paragraphs.
C5_NoMatchSkipped ==
    (big_table # 0 /\ NoMatchParagraphs # {}) =>
        /\ err # "AttributeError"
        /\ pc \notin {"locate", "collect"} => electorates = MatchedFigures

\* C6: no value of the returned table holds a comma, no percent holds '%'
\* and no candidate holds '*'.
C6_NoSeparators ==
    pc = "done" =>
        \A r \in 1..dataframe.n :
            /\ \A c \in Range(dataframe.columns) :
                   ~Has(dataframe.col[c][r], ",")
            /\ ~Has(dataframe.col["percent"][r], "%")
            /\ ~Has(dataframe.col["candidates"][r], "*")

\* C6 witness: a returned row decoded from cells whose texts hold a comma,
\* a '*' and a '%', under a name and an electorate figure with commas.
C6_Witness ==
    /\ pc = "done"
    /\ dataframe.n >= 1
    /\ Has(TextOf(doc, constituency_names[1]), ",")
    /\ \E p \in Range(find_all(doc, big_table, "p")) :
           Has(Group0(TextOf(doc, p)), ",")
    /\ \A j \in 1..4 :
           /\ Has(CellTexts(NestedTables[1])[j], ",")
           /\ Has(CellTexts(NestedTables[1])[j], "*")
           /\ Has(CellTexts(NestedTables[1])[j], "%")

C7_Converted ==
    /\ pc = "converted"
    /\ Lengths(constituency) = <<2, 2, 2, 2>>
    /\ dataframe.n = 2

\* Whether node t lies in a row, and the innermost row it lies in.
Encloses(j, t) ==
    j < t /\ \A x \in (j + 1)..t : doc[x].depth > doc[j].depth

InRow(t) == \E j \in 1..(t - 1) : doc[j].tag = "tr" /\ Encloses(j, t)

RowOf(t) ==
    CHOOSE j \in 1..(t - 1) :
        /\ doc[j].tag = "tr" /\ Encloses(j, t)
        /\ \A x \in (j + 1)..(t - 1) :
               ~(doc[x].tag = "tr" /\ Encloses(x, t))

\* The paragraphs of the row of the k-th nested table.
ParagraphsOf(k) == find_all(doc, RowOf(NestedTables[k]), "p")

\* The electorate figure that belongs to the k-th constituency.
OwnFigure(k) == ElectorateFigure(TextOf(doc, ParagraphsOf(k)[1]))

\* The side lists are complete.
Collected ==
    \/ pc \in {"tables", "cells", "assemble", "done"}
    \/ pc = "error" /\ err = "IndexError" /\ big_table # 0

\* The constituencies whose row holds no paragraph.
MissingRows == {k \in 1..Len(NestedTables) : ParagraphsOf(k) = <<>>}

\* N nested tables and N names were found, and one constituency lacks its
\* paragraph, so that N - 1 figures were collected.
OneMissing ==
    /\ Collected
    /\ Len(NestedTables) >= 1
    /\ Len(constituency_names) = Len(NestedTables)
    /\ Len(electorates) = Len(NestedTables) - 1
    /\ \A k \in 1..Len(NestedTables) : InRow(NestedTables[k])
    /\ Cardinality(MissingRows) = 1
    /\ \A k \in 1..Len(NestedTables) : Len(ParagraphsOf(k)) <= 1

\* The constituency without a paragraph.
MissingOne == CHOOSE k \in MissingRows : TRUE

\* The figure the claim gives record k: its own before the gap, that of
\* its successor from the gap on.
ShiftedFigure(k) == IF k < MissingOne THEN OwnFigure(k) ELSE OwnFigure(k + 1)

\* C8 (as claimed): with one electorate paragraph missing the run completes
\* without error, every record carrying the shifted figure.
C8_SilentShift ==
    OneMissing =>
        /\ pc # "error"
        /\ \A k \in 1..Len(constituencies) :
               k < Len(NestedTables) =>
                   constituencies[k].electorate = ShiftedFigure(k)

\* C8 (amended): with one electorate paragraph missing, the records before
\* the last are built with the shifted figures, the last record's lookup of
\* electorates[N - 1] raises IndexError, and the run never leaves the loop
\* over the tables for the assembly: no table is returned.
C8_ShiftThenIndexError ==
    OneMissing =>
        /\ pc \notin {"assemble", "done"}
        /\ Len(constituencies) <= Len(NestedTables) - 1
        /\ \A k \in 1..Len(constituencies) :
               k < Len(NestedTables) =>
                   /\ constituencies[k].electorate = ShiftedFigure(k)
                   /\ constituencies[k].name =
                          TextOf(doc, constituency_names[k])
        /\ pc = "error" =>
               /\ err = "IndexError"
               /\ con_count = Len(NestedTables) - 1
               /\ Len(constituencies) = Len(NestedTables) - 1
        /\ pc = "tables" => con_count < Len(NestedTables)

\* C8 witness: the run has aborted on the last record after building a
\* record that carries its successor's figure.
C8_Witness ==
    /\ OneMissing
    /\ pc = "error"
    /\ MissingOne = 1
    /\ Len(constituencies) >= 1
    /\ constituencies[1].electorate = OwnFigure(2)
    /\ constituencies[1].electorate # <<>>

\* C9 (as claimed): after the collection constituency_names holds every
\* bold span of the selected table exactly once, in document order, and
\* electorates one figure per matching paragraph.
C9_EachBoldOnce ==
    pc \in {"tables", "cells", "assemble", "done"} =>
        /\ constituency_names = find_all(doc, big_table, "b")
        /\ electorates = MatchedFigures

\* C10: while a nested table is decoded, after count cells the lengths of
\* the four lists descend by at most one from candidates to percent and
\* sum to count; with every cell consumed they are equal exactly when the
\* number of cells is a multiple of 4, and a table without cells converts
\* to no rows without an error.
C10_DecodeLengths ==
    pc = "cells" =>
        LET l == Lengths(constituency)
            n == Len(CellTexts(table))
        IN  /\ l[1] >= l[2] /\ l[2] >= l[3] /\ l[3] >= l[4]
            /\ l[4] >= l[1] - 1
            /\ l[1] + l[2] + l[3] + l[4] = count
            /\ count <= n
            /\ count = n =>
                  /\ EqualLengths(constituency) <=> (n % 4 = 0)
                  /\ to_pandas(constituency).raised <=> (n % 4 # 0)
                  /\ n = 0 => to_pandas(constituency).n = 0

\* C10 witness: a nested table of three cells has been consumed.
C10_Witness ==
    /\ pc = "cells"
    /\ Len(CellTexts(table)) = 3
    /\ count = 3
    /\ Lengths(constituency) = <<1, 1, 1, 0>>

====
